---- MODULE Spec2Model ----
(***************************************************************************)
(* Voltage / dB converter (src/src/voltage-db_convert.pyw).                *)
(*                                                                         *)
(* The state is the text of the eight entry widgets and the stored         *)
(* rounding; the operations are the six Convert button handlers            *)
(* (calc_vp .. calc_dbm) with everything they call (update_rounding,       *)
(* update_vp .. update_dbm), and the user's edits of the impedance entry   *)
(* and of the rounding spinbox.                                            *)
(*                                                                         *)
(* Numbers.  A Python float is modelled as a decimal floating-point        *)
(* number m * 10^e with an 8-digit mantissa (a double has 15 to 17), or    *)
(* one of nan, inf, -inf, with the exponent range of a double: a result    *)
(* above 1.7976931e308 overflows, one below 2.47e-324 becomes 0.  Every    *)
(* operation rounds its exact result to 8 digits, ties to even, as IEEE    *)
(* arithmetic rounds to 53 bits.  math.sqrt, math.log10 and 10**x are      *)
(* computed digit by digit.  Texts the program writes therefore carry at   *)
(* most 8 significant digits; further digits of a longer format are 0.     *)
(* A value exactly halfway between two texts of the format is rounded to   *)
(* even here; the double nearest to it may lie on either side.             *)
(***************************************************************************)
EXTENDS Integers, Sequences, FiniteSets, TLC

\* Mantissas m of non-zero floats satisfy MANTLO <= |m| < MANT.
MANT == 10^8
MANTLO == 10^7
\* Number of mantissa digits.
DIGITS == 8
\* Half-width limb used to multiply two mantissas without overflow.
LIMB == 10^4
\* Working scale of the digit-by-digit logarithm and power.
WORK == 10^8

Abs(x) == IF x < 0 THEN -x ELSE x

Sign(x) == IF x < 0 THEN -1 ELSE 1

Min(a, b) == IF a < b THEN a ELSE b

\* n / d for n >= 0, d > 0, rounded to the nearest integer, ties to even.
RoundDiv(n, d) ==
    LET q == n \div d
        r == n % d
    IN  IF 2 * r > d \/ (2 * r = d /\ q % 2 = 1) THEN q + 1 ELSE q

\* q + 1 or q: q rounded by the remainder r of a division by d, ties to even.
RoundBy(q, r, d) == IF r > d - r \/ (r = d - r /\ q % 2 = 1) THEN q + 1 ELSE q

\* RoundBy on a <<quotient, remainder>> pair.
RoundPair(qr, d) == RoundBy(qr[1], qr[2], d)

(***************************************************************************)
(* Floats: [k, m, e].  k = "fin": the value m * 10^e, m = 0 = e or         *)
(* MANTLO <= |m| < MANT.                                                   *)
(***************************************************************************)
NaN == [k |-> "nan", m |-> 0, e |-> 0]
PInf == [k |-> "inf", m |-> 0, e |-> 0]
NInf == [k |-> "ninf", m |-> 0, e |-> 0]
Zero == [k |-> "fin", m |-> 0, e |-> 0]
\* A finite result outside the range of a double (above it).
Overflow == [k |-> "overflow", m |-> 0, e |-> 0]
\* A Python exception raised instead of a value.
RaiseValueError == [k |-> "ValueError", m |-> 0, e |-> 0]
RaiseOverflowError == [k |-> "OverflowError", m |-> 0, e |-> 0]
RaiseZeroDivisionError == [k |-> "ZeroDivisionError", m |-> 0, e |-> 0]
\* Python's None, for the optional parameters of update_vp .. update_vrms.
None == [k |-> "none", m |-> 0, e |-> 0]

IsRaise(x) == x.k \in {"ValueError", "OverflowError", "ZeroDivisionError"}
IsInf(x) == x.k \in {"inf", "ninf"}

\* The normal form <<m, e>> of n * 10^e for a natural n < 2^31.
RECURSIVE Norm(_, _)
Norm(n, e) ==
    IF n = 0 THEN <<0, 0>>
    ELSE IF n < MANTLO THEN Norm(n * 10, e - 1)
    ELSE IF n >= MANT THEN Norm(RoundDiv(n, 10), e + 1)
    ELSE <<n, e>>

InfOfSign(s) == IF s > 0 THEN PInf ELSE NInf

\* The float s * ne[1] * 10^ne[2] for a normal form ne, inside the range of a
\* double: DBL_MAX is 1.7976931e308, half the least subnormal 2.4703282e-324.
InRange(s, ne) ==
    IF ne[2] > 301 \/ (ne[2] = 301 /\ ne[1] > 17976931) THEN Overflow
    ELSE IF ne[2] < -331 \/ (ne[2] = -331 /\ ne[1] < 24703282) THEN Zero
    ELSE [k |-> "fin", m |-> s * ne[1], e |-> ne[2]]

\* The float s * n * 10^e (s = 1 or -1).
Fin(s, n, e) == InRange(s, Norm(n, e))

\* The float s * nd[1] * 10^(nd[2] + e); inf when it is out of range.
Scaled(s, nd, e) ==
    IF Fin(s, nd[1], nd[2] + e).k = "overflow" THEN InfOfSign(s)
    ELSE Fin(s, nd[1], nd[2] + e)

\* The float of a small integer literal.
Num(n) == Fin(Sign(n), Abs(n), 0)

\* -1, 0, 1 for a float that is not nan.
SignOf(x) ==
    CASE x.k = "inf" -> 1
      [] x.k = "ninf" -> -1
      [] OTHER -> IF x.m > 0 THEN 1 ELSE IF x.m < 0 THEN -1 ELSE 0

\* x <= 0.0 (False when x is nan).
LeZero(x) ==
    CASE x.k = "nan" -> FALSE
      [] x.k = "inf" -> FALSE
      [] x.k = "ninf" -> TRUE
      [] OTHER -> x.m <= 0

\* The product a * b of two mantissas as <<n, d>>, the value n * 10^d rounded
\* to 8 digits: a * b = hi * MANT + lo.
MulNat(a, b) ==
    LET ah == a \div LIMB
        al == a % LIMB
        bh == b \div LIMB
        bl == b % LIMB
        t == ah * bl + al * bh
        lo0 == (t % LIMB) * LIMB + al * bl
        hi == ah * bh + (t \div LIMB) + (lo0 \div MANT)
        lo == lo0 % MANT
    IN  IF hi >= MANTLO THEN <<RoundBy(hi, lo, MANT), DIGITS>>
        ELSE <<RoundBy(hi * 10 + (lo \div MANTLO), lo % MANTLO, MANTLO),
               DIGITS - 1>>

\* Long division, n more decimal digits: <<quotient, remainder>>.
RECURSIVE DivDigits(_, _, _, _)
DivDigits(q, r, d, n) ==
    IF n = 0 THEN <<q, r>>
    ELSE DivDigits(q * 10 + ((r * 10) \div d), (r * 10) % d, d, n - 1)

\* The quotient a / b of two mantissas as <<n, d>>, the value n * 10^d.
DivNat(a, b) ==
    IF a >= b
    THEN <<RoundPair(DivDigits(a \div b, a % b, b, DIGITS - 1), b), 1 - DIGITS>>
    ELSE <<RoundPair(DivDigits(0, a, b, DIGITS), b), -DIGITS>>

\* a * b; a finite product out of range is inf.  An operand that raised
\* leaves the expression with its exception.
FMul(a, b) ==
    CASE IsRaise(a) -> a
      [] IsRaise(b) -> b
      [] a.k = "nan" \/ b.k = "nan" -> NaN
      [] IsInf(a) \/ IsInf(b) ->
            IF SignOf(a) = 0 \/ SignOf(b) = 0 THEN NaN
            ELSE InfOfSign(SignOf(a) * SignOf(b))
      [] a.m = 0 \/ b.m = 0 -> Zero
      [] OTHER -> Scaled(Sign(a.m) * Sign(b.m), MulNat(Abs(a.m), Abs(b.m)),
                         a.e + b.e)

\* a / b: ZeroDivisionError for b = 0; a quotient out of range is inf.
FDiv(a, b) ==
    CASE IsRaise(a) -> a
      [] IsRaise(b) -> b
      [] b.k = "fin" /\ b.m = 0 -> RaiseZeroDivisionError
      [] a.k = "nan" \/ b.k = "nan" -> NaN
      [] IsInf(a) /\ IsInf(b) -> NaN
      [] IsInf(a) -> InfOfSign(SignOf(a) * (IF SignOf(b) < 0 THEN -1 ELSE 1))
      [] IsInf(b) -> Zero
      [] a.m = 0 -> Zero
      [] OTHER -> Scaled(Sign(a.m) * Sign(b.m), DivNat(Abs(a.m), Abs(b.m)),
                         a.e - b.e)

\* x ** 2: pow() raises OverflowError where the product would be inf.
Square(x) ==
    IF IsRaise(x) THEN x
    ELSE IF x.k = "fin" /\ FMul(x, x).k = "inf" THEN RaiseOverflowError
    ELSE FMul(x, x)

(***************************************************************************)
(* math.sqrt, math.log10 and 10 ** x.                                      *)
(***************************************************************************)
\* The i-th base-100 digit of n * 100^z.
Pair(n, z, i) == IF i >= z THEN (n \div (100^(i - z))) % 100 ELSE 0

\* One step of the schoolbook square root: from the root p of the pairs read
\* so far and remainder r, the next digit c with (20p + c) * c <= 100r + pair.
RECURSIVE SqrtDigits(_, _, _, _, _)
SqrtDigits(n, z, i, p, r) ==
    IF i < 0 THEN <<p, r>>
    ELSE LET rr == r * 100 + Pair(n, z, i)
             c == CHOOSE d \in 0..9 :
                      /\ (20 * p + d) * d <= rr
                      /\ d = 9 \/ (20 * p + d + 1) * (d + 1) > rr
         IN  SqrtDigits(n, z, i - 1, p * 10 + c, rr - (20 * p + c) * c)

\* The root p with remainder r, rounded to nearest: up when n > (p + 1/2)^2.
SqrtRound(pr) == IF pr[2] > pr[1] THEN pr[1] + 1 ELSE pr[1]

\* The square root of a mantissa m at exponent e as <<n, d>>, the value
\* n * 10^d: the root of the 16-digit m * 10^8 (e even) or of the 15-digit
\* m * 10^7 (e odd), rounded to nearest.
SqrtNat(m, e) ==
    IF e % 2 = 1
    THEN <<SqrtRound(SqrtDigits(m * 10, 3, DIGITS - 1, 0, 0)),
           (e - (DIGITS - 1)) \div 2>>
    ELSE <<SqrtRound(SqrtDigits(m, 4, DIGITS - 1, 0, 0)), (e - DIGITS) \div 2>>

\* LOGTAB[k] = log10(1 + 2^-k) * WORK, rounded.
LOGTAB ==
    << 30103000, 17609126, 9691001, 5115252, 2632894, 1336396, 673338,
       337974, 169316, 84740, 42391, 21201, 10602, 5301, 2651, 1325, 663,
       331, 166, 83, 41, 21, 10, 5, 3, 1 >>

KS == Len(LOGTAB) - 1

\* log10(x / WORK) * WORK for WORK <= x < 10 * WORK: multiply y (from 1) by
\* (1 + 2^-k) while it stays <= x, adding LOGTAB[k] each time.
RECURSIVE LogSteps(_, _, _, _)
LogSteps(x, y, k, acc) ==
    IF k > KS THEN acc
    ELSE LET y2 == y + (y \div (2^k))
         IN  IF y2 <= x THEN LogSteps(x, y2, k, acc + LOGTAB[k + 1])
             ELSE LogSteps(x, y, k + 1, acc)

\* 10^(f / WORK) * WORK for 0 <= f < WORK, the same products in reverse.
RECURSIVE PowSteps(_, _, _)
PowSteps(f, y, k) ==
    IF k > KS THEN y
    ELSE IF f >= LOGTAB[k + 1]
         THEN PowSteps(f - LOGTAB[k + 1], y + (y \div (2^k)), k)
         ELSE PowSteps(f, y, k + 1)

\* The number of decimal digits of n >= 1.
RECURSIVE NDigits(_)
NDigits(n) == IF n < 10 THEN 1 ELSE 1 + NDigits(n \div 10)

\* The float s * (i + f / WORK) for naturals i and f < WORK.
FromParts(s, i, f) ==
    IF i = 0 THEN Fin(s, f, -DIGITS)
    ELSE LET d == NDigits(i)
         IN  Fin(s, i * (10^(DIGITS - d)) + RoundDiv(f, 10^d), d - DIGITS)

\* The float i + f / WORK for an integer i and a natural f < WORK.
FromSigned(i, f) ==
    IF i >= 0 THEN FromParts(1, i, f)
    ELSE IF f = 0 THEN FromParts(-1, -i, 0)
    ELSE FromParts(-1, -i - 1, WORK - f)

\* math.sqrt(x) for the x >= 0 the program takes the root of (2 and, after
\* the "<= 0.0" test, the impedance times 0.001).
Sqrt(x) ==
    CASE IsRaise(x) -> x
      [] x.k = "nan" -> NaN
      [] x.k = "inf" -> PInf
      [] x.k = "ninf" -> RaiseValueError
      [] x.m < 0 -> RaiseValueError
      [] x.m = 0 -> Zero
      [] OTHER -> Scaled(1, SqrtNat(x.m, x.e), 0)

\* math.log10(x): ValueError ("math domain error") for x <= 0 and for -inf.
Log10(x) ==
    CASE IsRaise(x) -> x
      [] x.k = "nan" -> NaN
      [] x.k = "inf" -> PInf
      [] x.k = "ninf" -> RaiseValueError
      [] x.m <= 0 -> RaiseValueError
      [] OTHER -> FromSigned(x.e + (DIGITS - 1), LogSteps(x.m * 10, WORK, 0, 0))

\* |x| = ip + fp / WORK for a float x with x.e < 0: <<ip, fp>>.
Split(a, e) ==
    << IF -e >= DIGITS THEN 0 ELSE a \div (10^(-e)),
       IF -e <= DIGITS THEN (a % (10^(-e))) * (10^(DIGITS + e))
       ELSE IF -e - DIGITS > DIGITS THEN 0
       ELSE a \div (10^(-e - DIGITS)) >>

\* 10^fl * (p / WORK) as a float, or OverflowError.
PowFloat(fl, p) ==
    IF Fin(1, RoundDiv(p, 10), fl - (DIGITS - 1)).k = "overflow"
    THEN RaiseOverflowError
    ELSE Fin(1, RoundDiv(p, 10), fl - (DIGITS - 1))

\* 10^(s * (ip + fp / WORK)): the floor and the fraction of the exponent.
PowParts(s, ip, fp) ==
    IF s > 0 THEN PowFloat(ip, PowSteps(fp, WORK, 0))
    ELSE IF fp = 0 THEN PowFloat(-ip, WORK)
    ELSE PowFloat(-ip - 1, PowSteps(WORK - fp, WORK, 0))

\* 10 ** x: OverflowError above the range of a double, 0.0 below it.
Pow10(x) ==
    CASE IsRaise(x) -> x
      [] x.k = "nan" -> NaN
      [] x.k = "inf" -> PInf
      [] x.k = "ninf" -> Zero
      [] x.m = 0 -> Num(1)
      [] x.e >= 0 -> IF x.m > 0 THEN RaiseOverflowError ELSE Zero
      [] OTHER -> PowParts(Sign(x.m), Split(Abs(x.m), x.e)[1],
                           Split(Abs(x.m), x.e)[2])

(***************************************************************************)
(* Entry texts: [k, m, e, nd, negz].  k = "int": the decimal integer       *)
(* m * 10^e; "fix": m * 10^e written with nd digits after the point (negz: *)
(* a zero written "-0.00.."); "nan", "inf", "ninf": the texts Python       *)
(* formats these floats as; "txt": any other text, numbered by m (0 is     *)
(* the empty text).                                                        *)
(***************************************************************************)
Str(k, x, nd, negz) == [k |-> k, m |-> x.m, e |-> x.e, nd |-> nd, negz |-> negz]

\* The text of a small integer n, as typed or as str(n).
IntStr(n) == Str("int", Num(n), 0, FALSE)
\* The text of n / 10^nd with nd digits after the point: FixStr(3, 2) is "0.03".
FixStr(n, nd) == Str("fix", Fin(Sign(n), Abs(n), -nd), nd, FALSE)
Text(i) == [k |-> "txt", m |-> i, e |-> 0, nd |-> 0, negz |-> FALSE]
Empty == Text(0)
NanStr == Str("nan", Zero, 0, FALSE)
InfStr == Str("inf", Zero, 0, FALSE)
NInfStr == Str("ninf", Zero, 0, FALSE)

\* float(text): the number, or ValueError.
FloatOf(s) ==
    CASE s.k = "txt" -> RaiseValueError
      [] s.k = "nan" -> NaN
      [] s.k = "inf" -> PInf
      [] s.k = "ninf" -> NInf
      [] OTHER -> [k |-> "fin", m |-> s.m, e |-> s.e]

\* int(text) succeeds on a decimal integer only ("4.0", "nan", "" raise).
IntOk(s) == s.k = "int"
\* Its value; MANT stands for every integer too large for a mantissa.
IntOf(s) ==
    IF s.e > 0 THEN Sign(s.m) * MANT
    ELSE Sign(s.m) * (Abs(s.m) \div (10^(-s.e)))

\* x.is_integer()
IsInteger(x) ==
    /\ x.k = "fin"
    /\ \/ x.m = 0
       \/ x.e >= 0
       \/ -x.e < DIGITS /\ x.m % (10^(-x.e)) = 0

\* f'{x:.{r}f}' for a finite x: x rounded to r digits after the point.
RoundTo(x, r) ==
    LET drop == -x.e - r
        q == IF drop > DIGITS THEN 0 ELSE RoundDiv(Abs(x.m), 10^drop)
    IN  IF drop <= 0 THEN Str("fix", x, r, FALSE)
        ELSE Str("fix", Fin(Sign(x.m), q, -r), r, q = 0 /\ x.m < 0)

\* f'{x:.{r}f}'
Format(x, r) ==
    CASE x.k = "nan" -> NanStr
      [] x.k = "inf" -> InfStr
      [] x.k = "ninf" -> NInfStr
      [] OTHER -> RoundTo(x, r)

\* The text every update_* writes: str(int(x)) if x.is_integer(), else x
\* formatted with the stored rounding.
Render(x, r) == IF IsInteger(x) THEN Str("int", x, 0, FALSE) ELSE Format(x, r)

(***************************************************************************)
(* The program's literals.                                                 *)
(***************************************************************************)
\* 0.7745966692, to 8 digits.
REF_U == Fin(1, 77459667, -8)
\* 0.001
MILLI == Fin(1, 1, -3)
\* math.sqrt(2)
SQRT2 == Sqrt(Num(2))

VARIABLES vp_box, vpp_box, vrms_box, dbu_box, dbv_box, dbm_box,
          impedance_box, rounding_spinbox, rounding,
          msgs, exc, written, raw, last, steps

boxes == <<vp_box, vpp_box, vrms_box, dbu_box, dbv_box, dbm_box>>
vars == <<vp_box, vpp_box, vrms_box, dbu_box, dbv_box, dbm_box,
          impedance_box, rounding_spinbox, rounding,
          msgs, exc, written, raw, last, steps>>

(***************************************************************************)
(* A handler runs on a record st of what it can write: the six entry       *)
(* texts, the stored rounding, the message boxes shown so far (msgs) and   *)
(* the exception in flight (exc, "none" when there is none).  A statement  *)
(* reached while an exception is in flight does nothing.  The record also  *)
(* logs the handler's writes: written, the entries it has replaced the     *)
(* text of, and raw, the number each of them was rendered from.            *)
(***************************************************************************)
BoxNames == {"vp_box", "vpp_box", "vrms_box", "dbu_box", "dbv_box", "dbm_box"}

NoRaw == [b \in BoxNames |-> None]

Entry ==
    [vp_box |-> vp_box, vpp_box |-> vpp_box, vrms_box |-> vrms_box,
     dbu_box |-> dbu_box, dbv_box |-> dbv_box, dbm_box |-> dbm_box,
     rounding |-> rounding, msgs |-> <<>>, exc |-> "none",
     written |-> {}, raw |-> NoRaw]

\* raise: the exception e is in flight.
Throw(st, e) == [st EXCEPT !.exc = e]
\* messagebox.showerror(title, ...), in an except clause or after one.
ShowError(st, title) == [st EXCEPT !.msgs = Append(@, title), !.exc = "none"]
\* except ValueError: messagebox.showerror(title, ...)
Caught(st, title) == IF st.exc = "ValueError" THEN ShowError(st, title) ELSE st

\* x = <expression>; box.delete(0, tk.END); box.insert(0, str(x rendered)):
\* nothing is written when the expression raises.
Write(st, box, x) ==
    IF IsRaise(x) THEN Throw(st, x.k)
    ELSE [st EXCEPT ![box] = Render(x, st.rounding),
                    !.written = @ \cup {box},
                    !.raw[box] = x]

\* update_rounding with the test "rounding_val > 11".
update_rounding_upto11(st) ==
    IF IntOk(rounding_spinbox)
       /\ ~(IntOf(rounding_spinbox) < 1 \/ IntOf(rounding_spinbox) > 11)
    THEN [st EXCEPT !.rounding = IntOf(rounding_spinbox)]
    ELSE ShowError(st, "Decimal places rounding error")

update_rounding(st) ==
    IF IntOk(rounding_spinbox)
       /\ ~(IntOf(rounding_spinbox) < 1 \/ IntOf(rounding_spinbox) > 10)
    THEN [st EXCEPT !.rounding = IntOf(rounding_spinbox)]
    ELSE ShowError(st, "Decimal places rounding error")

update_vp(st, vpp, vrms) ==
    IF st.exc # "none" THEN st
    ELSE IF vpp.k # "none"
         THEN Write(st, "vp_box", FDiv(vpp, Num(2)))
    ELSE IF vrms.k # "none"
         THEN Write(st, "vp_box", FMul(vrms, SQRT2))
    ELSE st

\* update_vpp writing its result to the Vp entry instead of the Vpp entry.
update_vpp_into_vp(st, vp, vrms) ==
    IF st.exc # "none" THEN st
    ELSE IF vp.k # "none"
         THEN Write(st, "vp_box", FMul(vp, Num(2)))
    ELSE IF vrms.k # "none"
         THEN Write(st, "vp_box", FMul(FMul(Num(2), vrms), SQRT2))
    ELSE st

update_vpp(st, vp, vrms) ==
    IF st.exc # "none" THEN st
    ELSE IF vp.k # "none"
         THEN Write(st, "vpp_box", FMul(vp, Num(2)))
    ELSE IF vrms.k # "none"
         THEN Write(st, "vpp_box", FMul(FMul(Num(2), vrms), SQRT2))
    ELSE st

\* The dbm branch of update_vrms, with its own try / except ValueError.
update_vrms_dbm(st, dbm) ==
    LET impedance == FloatOf(impedance_box)
    IN  IF IsRaise(impedance) \/ LeZero(impedance)
        THEN ShowError(st, "dBm Impedance Error")
        ELSE Caught(Write(st, "vrms_box",
                          Sqrt(FMul(FMul(MILLI, impedance),
                                    Pow10(FDiv(dbm, Num(10)))))),
                    "dBm Impedance Error")

update_vrms(st, vp, vpp, dbu, dbv, dbm) ==
    IF st.exc # "none" THEN st
    ELSE IF vp.k # "none"
         THEN Write(st, "vrms_box", FMul(vp, FDiv(Num(1), SQRT2)))
    ELSE IF vpp.k # "none"
         THEN Write(st, "vrms_box",
                    FMul(FDiv(vpp, Num(2)), FDiv(Num(1), SQRT2)))
    ELSE IF dbu.k # "none"
         THEN Write(st, "vrms_box", FMul(REF_U, Pow10(FDiv(dbu, Num(20)))))
    ELSE IF dbv.k # "none"
         THEN Write(st, "vrms_box", Pow10(FDiv(dbv, Num(20))))
    ELSE IF dbm.k # "none" THEN update_vrms_dbm(st, dbm)
    ELSE st

\* update_dbu with the factor 10 of a power ratio.
update_dbu_power(st, vrms) ==
    IF st.exc # "none" THEN st
    ELSE Write(st, "dbu_box", FMul(Num(10), Log10(FDiv(vrms, REF_U))))

update_dbu(st, vrms) ==
    IF st.exc # "none" THEN st
    ELSE Write(st, "dbu_box", FMul(Num(20), Log10(FDiv(vrms, REF_U))))

update_dbv(st, vrms) ==
    IF st.exc # "none" THEN st
    ELSE Write(st, "dbv_box", FMul(Num(20), Log10(vrms)))

update_dbm(st, vrms) ==
    IF st.exc # "none" THEN st
    ELSE IF IsRaise(vrms) THEN Throw(st, vrms.k)
    ELSE LET impedance == FloatOf(impedance_box)
         IN  IF IsRaise(impedance) \/ LeZero(impedance)
             THEN ShowError(st, "dBm Impedance Error")
             ELSE Caught(Write(st, "dbm_box",
                               FMul(Num(10),
                                    Log10(FDiv(Square(vrms),
                                               FMul(MILLI, impedance))))),
                         "dBm Impedance Error")

(***************************************************************************)
(* The six Convert button handlers, from the record at their entry to the  *)
(* record at their return.  calc_vp, calc_vpp and calc_vrms catch every    *)
(* ValueError of their body; calc_dbu, calc_dbv and calc_dbm catch only    *)
(* the one of float(entry).  Any other exception leaves the handler (exc   *)
(* names it at the return: tkinter reports it on stderr and the main loop  *)
(* goes on).                                                               *)
(***************************************************************************)
\* self.update_vp(vrms = float(self.vrms_box.get())), and likewise.
vp_from_vrms_box(st) == update_vp(st, None, FloatOf(st.vrms_box))
vpp_from_vrms_box(st) == update_vpp(st, None, FloatOf(st.vrms_box))
dbu_from_vrms_box(st) == update_dbu(st, FloatOf(st.vrms_box))
dbv_from_vrms_box(st) == update_dbv(st, FloatOf(st.vrms_box))
dbm_from_vrms_box(st) == update_dbm(st, FloatOf(st.vrms_box))

\* The try statement of calc_vp.
try_calc_vp(st) ==
    LET entry_val == FloatOf(st.vp_box)
    IN  IF IsRaise(entry_val) \/ LeZero(entry_val)
        THEN ShowError(st, "V-p Error")
        ELSE Caught(dbm_from_vrms_box(dbv_from_vrms_box(dbu_from_vrms_box(
                        update_vrms(update_vpp(st, entry_val, None),
                                    entry_val, None, None, None, None)))),
                    "V-p Error")

run_calc_vp(st) == try_calc_vp(update_rounding(st))

\* The try statement of calc_vpp.
try_calc_vpp(st) ==
    LET entry_val == FloatOf(st.vpp_box)
    IN  IF IsRaise(entry_val) \/ LeZero(entry_val)
        THEN ShowError(st, "V-pp Error")
        ELSE Caught(dbm_from_vrms_box(dbv_from_vrms_box(dbu_from_vrms_box(
                        update_vrms(update_vp(st, entry_val, None),
                                    None, entry_val, None, None, None)))),
                    "V-pp Error")

run_calc_vpp(st) == try_calc_vpp(update_rounding(st))

\* The try statement of calc_vrms.
try_calc_vrms(st) ==
    LET entry_val == FloatOf(st.vrms_box)
    IN  IF IsRaise(entry_val) \/ LeZero(entry_val)
        THEN ShowError(st, "V-RMS Error")
        ELSE Caught(update_dbm(update_dbv(update_dbu(
                        update_vpp(update_vp(st, None, entry_val),
                                   None, entry_val),
                        entry_val), entry_val), entry_val),
                    "V-RMS Error")

run_calc_vrms(st) == try_calc_vrms(update_rounding(st))

\* The try statement of calc_dbu: its else clause is not protected.
try_calc_dbu(st) ==
    LET entry_val == FloatOf(st.dbu_box)
    IN  IF IsRaise(entry_val) THEN ShowError(st, "dBu Error")
        ELSE dbm_from_vrms_box(dbv_from_vrms_box(
                 vpp_from_vrms_box(vp_from_vrms_box(
                     update_vrms(st, None, None, entry_val, None, None)))))

run_calc_dbu(st) == try_calc_dbu(update_rounding(st))

\* The try statement of calc_dbv: its else clause is not protected.
try_calc_dbv(st) ==
    LET entry_val == FloatOf(st.dbv_box)
    IN  IF IsRaise(entry_val) THEN ShowError(st, "dBV Error")
        ELSE dbm_from_vrms_box(dbu_from_vrms_box(
                 vpp_from_vrms_box(vp_from_vrms_box(
                     update_vrms(st, None, None, None, entry_val, None)))))

run_calc_dbv(st) == try_calc_dbv(update_rounding(st))

\* The try statement of calc_dbm: its else clause is not protected.
try_calc_dbm(st) ==
    LET entry_val == FloatOf(st.dbm_box)
    IN  IF IsRaise(entry_val) THEN ShowError(st, "dBm Error")
        ELSE dbv_from_vrms_box(dbu_from_vrms_box(
                 vpp_from_vrms_box(vp_from_vrms_box(
                     update_vrms(st, None, None, None, None, entry_val)))))

run_calc_dbm(st) == try_calc_dbm(update_rounding(st))

(***************************************************************************)
(* What the user can type.                                                 *)
(***************************************************************************)
\* "1", "0.03", "0", "abc", "nan", "inf"
VoltInputs == { IntStr(1), FixStr(3, 2), IntStr(0), Text(1), NanStr, InfStr }
\* "6", "-1000000", "1000000", "abc"
DbInputs == { IntStr(6), IntStr(-1000000), IntStr(1000000), Text(1) }
\* "600", "0", "abc", "nan", "inf"
ImpedanceInputs == { IntStr(600), IntStr(0), Text(1), NanStr, InfStr }
\* "1", "10", "0", "11", "abc"
SpinInputs == { IntStr(1), IntStr(10), IntStr(0), IntStr(11), Text(1) }

\* The number of user actions (conversions and edits) a run explores.
MaxSteps == 3

DefaultRounding == 4
DefaultImpedance == 600

Init ==
    /\ vp_box = Empty /\ vpp_box = Empty /\ vrms_box = Empty
    /\ dbu_box = Empty /\ dbv_box = Empty /\ dbm_box = Empty
    /\ impedance_box = IntStr(DefaultImpedance)
    /\ rounding_spinbox = IntStr(DefaultRounding)
    /\ rounding = DefaultRounding
    /\ msgs = <<>>
    /\ exc = "none"
    /\ written = {}
    /\ raw = NoRaw
    /\ last = "init"
    /\ steps = 0

\* The handler's return: its record becomes the state.
Return(st, handler) ==
    /\ vp_box' = st.vp_box /\ vpp_box' = st.vpp_box /\ vrms_box' = st.vrms_box
    /\ dbu_box' = st.dbu_box /\ dbv_box' = st.dbv_box /\ dbm_box' = st.dbm_box
    /\ rounding' = st.rounding
    /\ msgs' = st.msgs
    /\ exc' = st.exc
    /\ written' = st.written
    /\ raw' = st.raw
    /\ last' = handler
    /\ steps' = steps + 1
    /\ UNCHANGED <<impedance_box, rounding_spinbox>>

\* The user leaves the entry's text or types one of the inputs, then presses
\* the Convert button of that row.
calc_vp ==
    \E s \in VoltInputs \cup {vp_box} :
        /\ steps < MaxSteps
        /\ Return(run_calc_vp([Entry EXCEPT !.vp_box = s]), "calc_vp")

calc_vpp ==
    \E s \in VoltInputs \cup {vpp_box} :
        /\ steps < MaxSteps
        /\ Return(run_calc_vpp([Entry EXCEPT !.vpp_box = s]), "calc_vpp")

calc_vrms ==
    \E s \in VoltInputs \cup {vrms_box} :
        /\ steps < MaxSteps
        /\ Return(run_calc_vrms([Entry EXCEPT !.vrms_box = s]), "calc_vrms")

calc_dbu ==
    \E s \in DbInputs \cup {dbu_box} :
        /\ steps < MaxSteps
        /\ Return(run_calc_dbu([Entry EXCEPT !.dbu_box = s]), "calc_dbu")

calc_dbv ==
    \E s \in DbInputs \cup {dbv_box} :
        /\ steps < MaxSteps
        /\ Return(run_calc_dbv([Entry EXCEPT !.dbv_box = s]), "calc_dbv")

calc_dbm ==
    \E s \in DbInputs \cup {dbm_box} :
        /\ steps < MaxSteps
        /\ Return(run_calc_dbm([Entry EXCEPT !.dbm_box = s]), "calc_dbm")

\* The user edits the impedance entry.
edit_impedance ==
    \E s \in ImpedanceInputs :
        /\ steps < MaxSteps
        /\ impedance_box' = s
        /\ msgs' = <<>> /\ exc' = "none" /\ written' = {} /\ raw' = NoRaw
        /\ last' = "edit_impedance"
        /\ steps' = steps + 1
        /\ UNCHANGED <<boxes, rounding_spinbox, rounding>>

\* The user edits the rounding spinbox.
edit_spinbox ==
    \E s \in SpinInputs :
        /\ steps < MaxSteps
        /\ rounding_spinbox' = s
        /\ msgs' = <<>> /\ exc' = "none" /\ written' = {} /\ raw' = NoRaw
        /\ last' = "edit_spinbox"
        /\ steps' = steps + 1
        /\ UNCHANGED <<boxes, impedance_box, rounding>>

Next ==
    \/ calc_vp \/ calc_vpp \/ calc_vrms
    \/ calc_dbu \/ calc_dbv \/ calc_dbm
    \/ edit_impedance \/ edit_spinbox

Spec == Init /\ [][Next]_vars

(***************************************************************************)
(* Vocabulary of the properties.                                           *)
(***************************************************************************)
Calcs == {"calc_vp", "calc_vpp", "calc_vrms", "calc_dbu", "calc_dbv", "calc_dbm"}
VoltCalcs == {"calc_vp", "calc_vpp", "calc_vrms"}

\* The entry a handler reads its source value from, and the five others.
SourceOf(h) ==
    CASE h = "calc_vp" -> "vp_box"
      [] h = "calc_vpp" -> "vpp_box"
      [] h = "calc_vrms" -> "vrms_box"
      [] h = "calc_dbu" -> "dbu_box"
      [] h = "calc_dbv" -> "dbv_box"
      [] h = "calc_dbm" -> "dbm_box"
Others(h) == BoxNames \ {SourceOf(h)}

\* The error dialog of a handler's own except clause.
SourceError(h) ==
    CASE h = "calc_vp" -> "V-p Error"
      [] h = "calc_vpp" -> "V-pp Error"
      [] h = "calc_vrms" -> "V-RMS Error"
      [] h = "calc_dbu" -> "dBu Error"
      [] h = "calc_dbv" -> "dBV Error"
      [] h = "calc_dbm" -> "dBm Error"

\* The handler named h, run on the record st.
RunOf(h, st) ==
    CASE h = "calc_vp" -> run_calc_vp(st)
      [] h = "calc_vpp" -> run_calc_vpp(st)
      [] h = "calc_vrms" -> run_calc_vrms(st)
      [] h = "calc_dbu" -> run_calc_dbu(st)
      [] h = "calc_dbv" -> run_calc_dbv(st)
      [] h = "calc_dbm" -> run_calc_dbm(st)

\* The current text of an entry.
BoxText(b) ==
    CASE b = "vp_box" -> vp_box
      [] b = "vpp_box" -> vpp_box
      [] b = "vrms_box" -> vrms_box
      [] b = "dbu_box" -> dbu_box
      [] b = "dbv_box" -> dbv_box
      [] b = "dbm_box" -> dbm_box

Shown(title) == \E i \in DOMAIN msgs : msgs[i] = title
NoError == msgs = <<>> /\ exc = "none"

\* A text that is a finite number / a finite number greater than 0.
FiniteText(s) == s.k \in {"int", "fix"}
PositiveText(s) == FiniteText(s) /\ s.m > 0
\* The spinbox holds an integer in [1, 10].
SpinValid == IntOk(rounding_spinbox) /\ IntOf(rounding_spinbox) \in 1..10
\* The source text the last request read is a valid one for its handler.
SourceValid ==
    IF last \in VoltCalcs THEN PositiveText(BoxText(SourceOf(last)))
    ELSE FiniteText(BoxText(SourceOf(last)))

\* |a - b| <= 10^-r for two finite texts a and b.  Exact when the exponents
\* of a and b differ by at most 1 (or one of them is 0); FALSE otherwise.
Within(a, b, r) ==
    LET lo == IF a.m = 0 THEN b.e ELSE IF b.m = 0 THEN a.e ELSE Min(a.e, b.e)
        da == IF a.m = 0 THEN 0 ELSE a.e - lo
        db == IF b.m = 0 THEN 0 ELSE b.e - lo
    IN  /\ da <= 1 /\ db <= 1
        /\ IF -r - lo < 0 THEN a.m * (10^da) = b.m * (10^db)
           ELSE IF -r - lo > DIGITS + 1 THEN TRUE
           ELSE Abs(a.m * (10^da) - b.m * (10^db)) <= 10^(-r - lo)

(***************************************************************************)
(* C1.  A request whose rounding precision (the spinbox text it reads) is  *)
(* not an integer in [1,10] is rejected with the rounding error and        *)
(* performs no computation: it writes none of the measurement fields.      *)
(* Stated for requests that are valid in everything but the rounding.      *)
(***************************************************************************)
C1_InvalidRoundingRejected ==
    (last \in Calcs /\ ~SpinValid /\ SourceValid /\ PositiveText(impedance_box))
        => (Shown("Decimal places rounding error") /\ written = {})

(***************************************************************************)
(* C2.  No partial updates: a request either writes all five non-source    *)
(* fields and reports no error, or reports an error and writes none.       *)
(***************************************************************************)
C2_NoPartialUpdate ==
    last \in Calcs
        => \/ written = Others(last) /\ NoError
           \/ written = {} /\ ~NoError

(***************************************************************************)
(* C3.  A conversion from Vp, Vpp or Vrms whose source text is not a       *)
(* finite number greater than 0 shows the handler's magnitude error and    *)
(* writes no field.                                                        *)
(***************************************************************************)
C3_InvalidMagnitudeRejected ==
    (last \in VoltCalcs /\ ~PositiveText(BoxText(SourceOf(last))))
        => (Shown(SourceError(last)) /\ written = {})

(***************************************************************************)
(* C4.  When the impedance text is not a finite number greater than 0, a   *)
(* request that does not fail for another reason shows the impedance       *)
(* error and writes no value that depends on the impedance: not the dBm    *)
(* field, and in a conversion from dBm not the Vrms field.                 *)
(***************************************************************************)
C4_InvalidImpedanceRejected ==
    (/\ last \in Calcs
     /\ ~PositiveText(impedance_box)
     /\ SourceValid
     /\ exc = "none"
     /\ ~Shown(SourceError(last)))
        => /\ Shown("dBm Impedance Error")
           /\ "dbm_box" \notin written
           /\ (last = "calc_dbm" => "vrms_box" \notin written)

(***************************************************************************)
(* C5.  A conversion from dBu or dBV whose source text is any finite       *)
(* number, with a valid rounding and a valid impedance, succeeds: no       *)
(* error, and all five other fields written.                               *)
(***************************************************************************)
C5_DbSourceUnrestricted ==
    (/\ last \in {"calc_dbu", "calc_dbv"}
     /\ FiniteText(BoxText(SourceOf(last)))
     /\ SpinValid
     /\ PositiveText(impedance_box))
        => (NoError /\ written = Others(last))

\* The record of a request made right after construction: every measurement
\* entry empty but the source, the stored rounding at its default.
FreshText(h, b) == IF b = SourceOf(h) THEN BoxText(b) ELSE Empty
Fresh(h) ==
    [vp_box |-> FreshText(h, "vp_box"), vpp_box |-> FreshText(h, "vpp_box"),
     vrms_box |-> FreshText(h, "vrms_box"), dbu_box |-> FreshText(h, "dbu_box"),
     dbv_box |-> FreshText(h, "dbv_box"), dbm_box |-> FreshText(h, "dbm_box"),
     rounding |-> DefaultRounding, msgs |-> <<>>, exc |-> "none",
     written |-> {}, raw |-> NoRaw]

(***************************************************************************)
(* C6.  Statelessness: what a request does (the errors it reports, the     *)
(* fields it writes and the texts it writes to them) is a function of its  *)
(* source text, the impedance and the spinbox text alone: it is what the   *)
(* same request does right after construction.                             *)
(***************************************************************************)
C6_Stateless ==
    last \in Calcs
        => /\ msgs = RunOf(last, Fresh(last)).msgs
           /\ exc = RunOf(last, Fresh(last)).exc
           /\ written = RunOf(last, Fresh(last)).written
           /\ \A b \in written : BoxText(b) = RunOf(last, Fresh(last))[b]

(***************************************************************************)
(* C7.  Formatting rule: with a valid rounding r in the spinbox, every     *)
(* field a request writes holds the integer text of its raw result when    *)
(* that result is a whole number, and otherwise a fixed-point text with    *)
(* exactly r digits after the point.                                       *)
(***************************************************************************)
C7_FormattingRule ==
    (last \in Calcs /\ SpinValid)
        => \A b \in written :
              IF IsInteger(raw[b])
              THEN BoxText(b).k = "int" /\ FloatOf(BoxText(b)) = raw[b]
              ELSE /\ BoxText(b).k = "fix"
                   /\ BoxText(b).nd = IntOf(rounding_spinbox)

(***************************************************************************)
(* C8.  The stored rounding starts at 4, is always an integer in [1,10],   *)
(* and changes only in a conversion request, to the integer in [1,10]      *)
(* that the request reads from the spinbox.                                *)
(***************************************************************************)
C8_StoredRounding ==
    /\ rounding = 4
    /\ [](rounding \in 1..10)
    /\ [][rounding' # rounding =>
            /\ last' \in Calcs
            /\ SpinValid
            /\ rounding' = IntOf(rounding_spinbox)]_vars

\* A request has replaced the default rounding by the spinbox's 10.
C8_Witness == last \in Calcs /\ rounding = 10 /\ rounding_spinbox = IntStr(10)

\* A conversion from Vpp = x, x a finite number greater than 0, with a valid
\* rounding, followed by a conversion from the Vp text it has left.
RoundTrip ==
    /\ last = "calc_vpp" /\ PositiveText(vpp_box) /\ SpinValid
    /\ last' = "calc_vp" /\ vp_box' = vp_box

(***************************************************************************)
(* C9.  Vpp/Vp round trip: for every Vpp = x > 0 and every rounding in     *)
(* [1,10] (and a valid impedance), the conversion from Vpp and then the    *)
(* conversion from the Vp it has written both succeed, and the Vpp written *)
(* is within 10^-rounding of x.                                            *)
(***************************************************************************)
C9_RoundTripAlwaysSucceeds ==
    [][(RoundTrip /\ PositiveText(impedance_box))
          => /\ NoError /\ NoError'
             /\ "vpp_box" \in written'
             /\ Within(vpp_box', vpp_box, rounding')]_vars

\* A conversion from Vrms = "1" with the spinbox at 4 and the impedance 600.
Scenario ==
    /\ last = "calc_vrms" /\ vrms_box = IntStr(1)
    /\ rounding_spinbox = IntStr(4) /\ impedance_box = IntStr(600)

(***************************************************************************)
(* C10 as stated.  Vrms = 1 with rounding 4 and impedance 600 yields       *)
(* Vp "1.4142", Vpp "2.8284", dBu "2.2190", dBV "0" and dBm "-27.7815".    *)
(***************************************************************************)
C10_ScenarioAsStated ==
    Scenario
        => /\ vp_box = FixStr(14142, 4) /\ vpp_box = FixStr(28284, 4)
           /\ dbu_box = FixStr(22190, 4) /\ dbv_box = IntStr(0)
           /\ dbm_box = FixStr(-277815, 4)

(***************************************************************************)
(* C10.  Vrms = 1 with rounding 4 and impedance 600 yields Vp "1.4142",    *)
(* Vpp "2.8284", dBu "2.2185", dBV "0" and dBm "2.2185", with no error.    *)
(***************************************************************************)
C10_Scenario ==
    Scenario
        => /\ vp_box = FixStr(14142, 4) /\ vpp_box = FixStr(28284, 4)
           /\ dbu_box = FixStr(22185, 4) /\ dbv_box = IntStr(0)
           /\ dbm_box = FixStr(22185, 4)
           /\ NoError /\ written = Others("calc_vrms")

\* The scenario has run and written its five fields.
C10_Witness == Scenario /\ "dbm_box" \in written

\* The fields a conversion derives from the Vrms it has computed: the dB
\* fields in a conversion from Vp or Vpp, and Vp, Vpp and the other dB fields
\* in a conversion from dBu, dBV or dBm.
DerivedFromVrms(h) ==
    IF h \in {"calc_vp", "calc_vpp"} THEN {"dbu_box", "dbv_box", "dbm_box"}
    ELSE Others(h) \ {"vrms_box"}

\* The text of field b when update_vp .. update_dbm is given the float vrms.
FromVrms(b, vrms) ==
    CASE b = "vp_box" -> update_vp(Entry, None, vrms).vp_box
      [] b = "vpp_box" -> update_vpp(Entry, None, vrms).vpp_box
      [] b = "dbu_box" -> update_dbu(Entry, vrms).dbu_box
      [] b = "dbv_box" -> update_dbv(Entry, vrms).dbv_box
      [] b = "dbm_box" -> update_dbm(Entry, vrms).dbm_box

\* The last request is a valid one from Vp, Vpp, dBu, dBV or dBm, and the
\* Vrms it has computed and written is a finite number greater than 0.
ComputedVrms ==
    /\ last \in Calcs \ {"calc_vrms"}
    /\ SpinValid /\ SourceValid /\ PositiveText(impedance_box)
    /\ "vrms_box" \in written
    /\ raw["vrms_box"].k = "fin" /\ raw["vrms_box"].m > 0

(***************************************************************************)
(* C11.  Full-precision intermediates: in a conversion from Vp, Vpp, dBu,  *)
(* dBV or dBm, every field derived from Vrms holds the formatted result    *)
(* of its formula applied to the unrounded Vrms, and no error is raised,   *)
(* also when the Vrms rounds to zero at the current precision.             *)
(***************************************************************************)
C11_FullPrecisionIntermediates ==
    ComputedVrms
        => /\ NoError
           /\ \A b \in DerivedFromVrms(last) :
                 b \in written /\ BoxText(b) = FromVrms(b, raw["vrms_box"])

\* The texts the source entry of handler h can hold when its Convert button
\* is pressed: the text it held, or one the user has typed.
SourceTexts(h) ==
    (IF h \in VoltCalcs THEN VoltInputs ELSE DbInputs) \cup {BoxText(SourceOf(h))}

(***************************************************************************)
(* C12.  Frame: a conversion request never writes the entry of its own     *)
(* source, the impedance entry or the rounding spinbox: after the request, *)
(* successful or failed, the source entry holds the text the request was   *)
(* made with, and the impedance and the spinbox are unchanged.             *)
(***************************************************************************)
C12_Frame ==
    [][\A h \in Calcs :
          last' = h
              => /\ SourceOf(h) \notin written'
                 /\ raw'[SourceOf(h)] = None
                 /\ BoxText(SourceOf(h))' \in SourceTexts(h)
                 /\ impedance_box' = impedance_box
                 /\ rounding_spinbox' = rounding_spinbox]_vars

\* A successful request from Vp = "1" and a failed one from dBu = "-1000000"
\* have both left their source entry as typed.
C12_Witness ==
    \/ /\ last = "calc_vp" /\ vp_box = IntStr(1)
       /\ written = Others("calc_vp") /\ NoError
    \/ /\ last = "calc_dbu" /\ dbu_box = IntStr(-1000000)
       /\ exc = "ValueError"

====
